---- MODULE Spec2Model ----
(***************************************************************************)
(* Model of LogicWorld-BadApple (src/main.rs): `main` reads a netlist      *)
(* file, `inject` appends the video netlist built from the frames          *)
(* directory, and `main` writes the file back in place.                    *)
(*                                                                         *)
(* Positions are kept in hundredths of a layout unit (0.90 -> 90), so the  *)
(* f32 arithmetic of the source is exact integer arithmetic here.          *)
(* Addresses are u32 and cluster ids i32 in the source; the model's        *)
(* bounds keep every value far below 2^31, so no wrapping is modelled.     *)
(* Rust's 0-based vectors row_boards, row_frame_clusters, ... are          *)
(* functions on 0..n-1; file.components and file.wires are sequences in    *)
(* push order.                                                             *)
(***************************************************************************)
EXTENDS Integers, Sequences, FiniteSets, TLC

VARIABLES
    pc,                 \* position of main: "start", "frames", "injected",
                        \*   "created", "done", "failed", "write_failed"
    run,                \* which invocation of the program this is (1, 2, ..)
    invocations,        \* how many times the user runs the program
    disk,               \* content of the target file on disk
    before,             \* content of the target file when this run began
    original,           \* content of the target file before the first run
    frame_count,        \* frame_files.len()
    width, height,      \* dimensions of the first frame
    change_frames,      \* 1-indexed frames whose image may differ from the one before
    opened,             \* decoded frames, in file order, as far as they were opened
    file,               \* the in-memory BlotterFile
    last_addr,
    last_cluster,
    row_boards,
    row_frame_clusters,
    row_frame_delayers,
    row_col_clusters,
    row_col_last_pegs,
    last_frame,
    frame_index         \* number of frames fully processed (enumerate() index)

vars == <<pc, run, invocations, disk, before, original, frame_count, width,
          height, change_frames, opened, file, last_addr, last_cluster,
          row_boards, row_frame_clusters, row_frame_delayers,
          row_col_clusters, row_col_last_pegs, last_frame, frame_index>>

---------------------------------------------------------------------------
(* Program constants *)

\* main.rs:195  (frame_index + 1) % 200 == 0
ChunkPeriod == 200
\* main.rs:116  (z + 1) % 400 == 0
CompensationPeriod == 400
\* main.rs:130  10 - chunk_compensation
TimingTicks == 10
\* main.rs:213, 256  custom_data of chunk and pixel delayers
PixelTicks == 1
\* main.rs:348  luma > 127
LumaThreshold == 127

---------------------------------------------------------------------------
(* Bounds of the model *)

\* short frame sequences: frame_count * width * height <= MaxCells
MaxCells == 8
\* long frame sequences have ChunkPeriod..ChunkPeriod+MaxExtraFrames frames
MaxExtraFrames == 1
\* in a long sequence an image may differ from the one before only within
\* ChangeWindow frames of a multiple of ChunkPeriod (0 included)
ChangeWindow == 1
\* pre-existing netlists hold up to MaxPreComps components ..
MaxPreComps == 2
\* .. with addresses in 1..MaxPreAddr ..
MaxPreAddr == 2
\* .. and pins bound to clusters 1..MaxPreCluster
MaxPreCluster == 2
\* a pre-existing WorldFormat bitmap has 0..MaxPreBytes bytes
MaxPreBytes == 2
\* the program is run up to MaxRuns times on the same file ..
MaxRuns == 2
\* .. when frame_count * width * height <= MaxRerunCells, and once otherwise
MaxRerunCells == 4

---------------------------------------------------------------------------
(* Pure helpers *)

RECURSIVE SeqMaxFrom(_, _, _)
\* Iterator::max() of s[i..], folded into acc
SeqMaxFrom(s, i, acc) ==
    IF i > Len(s) THEN acc
    ELSE SeqMaxFrom(s, i + 1, IF s[i] > acc THEN s[i] ELSE acc)

\* Option<T>: <<>> is None, <<v>> is Some(v)
IterMax(s) == IF s = <<>> THEN <<>> ELSE <<SeqMaxFrom(s, 2, s[1])>>

unwrap_or(opt, d) == IF opt = <<>> THEN d ELSE opt[1]

\* i32::to_le_bytes for a non-negative value
to_le_bytes(n) ==
    <<n % 256, (n \div 256) % 256, (n \div 65536) % 256, (n \div 16777216) % 256>>

\* variant of to_1bit: the threshold itself counts as on
to_1bit_Inclusive(luma) == luma >= LumaThreshold

\* main.rs:347-349: fn to_1bit, on the luma of the pixel
to_1bit(luma) == luma > LumaThreshold

\* the closure get_addr: the value it stores in last_addr and returns
get_addr(last) == last + 1

\* the closure get_cluster: the value it stores in last_cluster and returns
get_cluster(last) == last + 1

\* the allocator's state after calls that returned the sequence got
LastOf(last, got) == IF got = <<>> THEN last ELSE got[Len(got)]

RECURSIVE take_addr(_, _)
\* repeat_with(&mut get_addr).take(n).collect(): n successive calls, the
\* first half of them and then the rest
take_addr(last, n) ==
    IF n = 0 THEN <<>>
    ELSE IF n = 1 THEN <<get_addr(last)>>
    ELSE LET first == take_addr(last, n \div 2)
         IN  first \o take_addr(LastOf(last, first), n - n \div 2)

RECURSIVE take_cluster(_, _)
\* repeat_with(&mut get_cluster).take(n).collect()
take_cluster(last, n) ==
    IF n = 0 THEN <<>>
    ELSE IF n = 1 THEN <<get_cluster(last)>>
    ELSE LET first == take_cluster(last, n \div 2)
         IN  first \o take_cluster(LastOf(last, first), n - n \div 2)

\* a Rust Vec built from a sequence: index 0..n-1
Vec(s) == [i \in 0..(Len(s) - 1) |-> s[i + 1]]

---------------------------------------------------------------------------
(* The netlist: components, wires, signal-state table *)

\* Option<Vec<u8>>
None == <<>>
Some(v) == <<v>>

Component(address, parent, type_id, position, rotation, inputs, outputs, custom_data) ==
    [address |-> address, parent |-> parent, type_id |-> type_id,
     position |-> position, rotation |-> rotation,
     inputs |-> inputs, outputs |-> outputs, custom_data |-> custom_data]

PegAddress(is_input, component_address, peg_index) ==
    [is_input |-> is_input, component_address |-> component_address,
     peg_index |-> peg_index]

Wire(start_peg, end_peg, circuit_state_id) ==
    [start_peg |-> start_peg, end_peg |-> end_peg,
     circuit_state_id |-> circuit_state_id, rotation |-> 0]

WorldFormat(bytes) == [format |-> "WorldFormat", circuit_states |-> bytes]
SubassemblyFormat == [format |-> "SubassemblyFormat", circuit_states |-> <<>>]

TextIds == {"MHG.CircuitBoard", "MHG.Delayer", "MHG.Peg", "MHG.ChubbySocket"}

\* the type catalog of a Logic World save that knows the four kinds
FullCatalog ==
    {[text_id |-> "MHG.CircuitBoard", numeric_id |-> 1],
     [text_id |-> "MHG.Delayer", numeric_id |-> 2],
     [text_id |-> "MHG.Peg", numeric_id |-> 3],
     [text_id |-> "MHG.ChubbySocket", numeric_id |-> 4]}

\* component_id_map: the catalog as a map from text id to numeric id
component_id_map(types) ==
    [t \in {ty.text_id : ty \in types} |->
        (CHOOSE ty \in types : ty.text_id = t).numeric_id]

\* indexing the HashMap panics on a missing key
CatalogComplete(types) == TextIds \subseteq DOMAIN component_id_map(types)

\* variant of SeedAddr: the address of the last component, as if the list were sorted
SeedAddr_Last(components) ==
    IF components = <<>> THEN 0 ELSE components[Len(components)].address

\* main.rs:62-67: the seed of last_addr
SeedAddr(components) ==
    unwrap_or(IterMax([i \in 1..Len(components) |-> components[i].address]), 0)

\* variant of CompMaxCluster: the output pins only
CompMaxCluster_Outputs(comp) ==
    IterMax([i \in 1..Len(comp.outputs) |-> comp.outputs[i].circuit_state_id])

\* main.rs:76-78: the largest cluster id on the pins of one component
CompMaxCluster(comp) ==
    IterMax([i \in 1..Len(comp.inputs) |-> comp.inputs[i].circuit_state_id]
            \o [i \in 1..Len(comp.outputs) |-> comp.outputs[i].circuit_state_id])

RECURSIVE FlatMapMax(_, _)
\* flat_map over the components: the Some values, in order
FlatMapMax(components, i) ==
    IF i > Len(components) THEN <<>>
    ELSE CompMaxCluster(components[i]) \o FlatMapMax(components, i + 1)

\* main.rs:72-81: the seed of last_cluster
SeedCluster(components) == unwrap_or(IterMax(FlatMapMax(components, 1)), 0)

\* main.rs:92-105
Board(address, y, w, depth, types) ==
    Component(address, 0, component_id_map(types)["MHG.CircuitBoard"],
              <<0, y * 90, 0>>, <<0, 0, 0, 1>>, <<>>, <<>>,
              Some(<<51, 51, 51>> \o to_le_bytes(1 + 3 * w) \o to_le_bytes(2 * depth)))

\* variant of chunk_compensation: the 0-based index is tested
chunk_compensation_ZeroBased(z) == IF z % CompensationPeriod = 0 THEN 1 ELSE 0

\* main.rs:116
chunk_compensation(z) == IF (z + 1) % CompensationPeriod = 0 THEN 1 ELSE 0

\* variant of TimingDelayer: every timing delayer lasts the full 10 ticks
TimingDelayer_Uncompensated(address, parent, z, in_cluster, out_cluster, types) ==
    Component(address, parent, component_id_map(types)["MHG.Delayer"],
              <<15, 15, z * 60 + 15>>, <<0, 0, 0, 1>>,
              <<[circuit_state_id |-> in_cluster]>>,
              <<[circuit_state_id |-> out_cluster]>>,
              Some(<<0, 0, 0, 0, TimingTicks, 0, 0, 0>>))

\* main.rs:118-131: the timing delayer at 0-based chain index z
TimingDelayer(address, parent, z, in_cluster, out_cluster, types) ==
    Component(address, parent, component_id_map(types)["MHG.Delayer"],
              <<15, 15, z * 60 + 15>>, <<0, 0, 0, 1>>,
              <<[circuit_state_id |-> in_cluster]>>,
              <<[circuit_state_id |-> out_cluster]>>,
              Some(<<0, 0, 0, 0, TimingTicks - chunk_compensation(z), 0, 0, 0>>))

\* main.rs:134-147
TimingWire(prev_delayer, delayer, cluster) ==
    Wire(PegAddress(FALSE, prev_delayer, 0), PegAddress(TRUE, delayer, 0), cluster)

\* main.rs:163-174
Socket(address, parent, x, cluster, types) ==
    Component(address, parent, component_id_map(types)["MHG.ChubbySocket"],
              <<x * 90 + 75, 15, 15>>, <<0, 1, 0, 0>>,
              <<[circuit_state_id |-> cluster]>>, <<>>, None)

\* variant of ChunkDelayer: the two clusters change sides
ChunkDelayer_Swapped(address, parent, x, z, in_cluster, out_cluster, types) ==
    Component(address, parent, component_id_map(types)["MHG.Delayer"],
              <<x * 90 + 75, 15, z * 60 - 45>>, <<0, 1, 0, 0>>,
              <<[circuit_state_id |-> out_cluster]>>,
              <<[circuit_state_id |-> in_cluster]>>,
              Some(<<0, 0, 0, 0, PixelTicks, 0, 0, 0>>))

\* main.rs:201-214
ChunkDelayer(address, parent, x, z, in_cluster, out_cluster, types) ==
    Component(address, parent, component_id_map(types)["MHG.Delayer"],
              <<x * 90 + 75, 15, z * 60 - 45>>, <<0, 1, 0, 0>>,
              <<[circuit_state_id |-> in_cluster]>>,
              <<[circuit_state_id |-> out_cluster]>>,
              Some(<<0, 0, 0, 0, PixelTicks, 0, 0, 0>>))

\* main.rs:215-228
ChunkWire(chunk_delayer, last_peg, cluster) ==
    Wire(PegAddress(FALSE, chunk_delayer, 0), PegAddress(TRUE, last_peg, 0), cluster)

\* main.rs:244-257
PixelDelayer(address, parent, x, z, in_cluster, out_cluster, types) ==
    Component(address, parent, component_id_map(types)["MHG.Delayer"],
              <<x * 90 + 45, 15, z * 60 - 15>>, <<0, 1, 0, 0>>,
              <<[circuit_state_id |-> in_cluster]>>,
              <<[circuit_state_id |-> out_cluster]>>,
              Some(<<0, 0, 0, 0, PixelTicks, 0, 0, 0>>))

\* variant of PixelPeg: the peg's input is bound to the next cluster id
PixelPeg_NextCluster(address, parent, x, z, cluster, types) ==
    Component(address, parent, component_id_map(types)["MHG.Peg"],
              <<x * 90 + 75, 15, z * 60 - 45>>, <<0, 0, 0, 1>>,
              <<[circuit_state_id |-> cluster + 1]>>, <<>>, None)

\* main.rs:265-276
PixelPeg(address, parent, x, z, cluster, types) ==
    Component(address, parent, component_id_map(types)["MHG.Peg"],
              <<x * 90 + 75, 15, z * 60 - 45>>, <<0, 0, 0, 1>>,
              <<[circuit_state_id |-> cluster]>>, <<>>, None)

\* main.rs:279-292
TapWire(row_last_delayer, pixel_delayer, cluster) ==
    Wire(PegAddress(TRUE, row_last_delayer, 0), PegAddress(TRUE, pixel_delayer, 0), cluster)

\* main.rs:294-307
OutputWire(pixel_delayer, pixel_peg, cluster) ==
    Wire(PegAddress(FALSE, pixel_delayer, 0), PegAddress(TRUE, pixel_peg, 0), cluster)

\* variant of BackWire: the wire runs from the previous tap to the new peg
BackWire_Reversed(pixel_peg, last_peg, cluster) ==
    Wire(PegAddress(TRUE, last_peg, 0), PegAddress(TRUE, pixel_peg, 0), cluster)

\* variant of BackWire: the wire leaves the peg's output side
BackWire_FromOutput(pixel_peg, last_peg, cluster) ==
    Wire(PegAddress(FALSE, pixel_peg, 0), PegAddress(TRUE, last_peg, 0), cluster)

\* main.rs:311-324
BackWire(pixel_peg, last_peg, cluster) ==
    Wire(PegAddress(TRUE, pixel_peg, 0), PegAddress(TRUE, last_peg, 0), cluster)

---------------------------------------------------------------------------
(* Frames *)

Pixels(w, h) == (0..(w - 1)) \X (0..(h - 1))

\* a decoded image: its size and the luma of each pixel, keyed <<x, y>>
Image(w, h, px) == [width |-> w, height |-> h, px |-> px]

\* main.rs:179-183: ImageBuffer::from_pixel(width, height, Rgb([0, 0, 0]))
BlackFrame(w, h) == Image(w, h, [p \in Pixels(w, h) |-> 0])

\* sample lumas on both sides of the threshold
Lumas == {LumaThreshold, LumaThreshold + 1}

\* images of the first frame's size
GoodFrames(w, h) == {Image(w, h, px) : px \in [Pixels(w, h) -> Lumas]}

\* images of another size
BadFrames(w, h) == {BlackFrame(w + 1, h), BlackFrame(w, h + 1)}

\* GenericImageView::get_pixel followed by to_luma
get_pixel(frame, x, y) == frame.px[<<x, y>>]

\* variant of at_chunk_boundary: the 0-based index is tested
at_chunk_boundary_ZeroBased(index) == index % ChunkPeriod = 0

\* main.rs:195
at_chunk_boundary(index) == (index + 1) % ChunkPeriod = 0

---------------------------------------------------------------------------
(* One frame of inject's main loop, as a fold over the pixels in the       *)
(* order of the nested loops: k = y * width + x.                           *)
(* The loop state st carries the components and wires pushed so far in     *)
(* this frame and the locals the loops mutate.                             *)

LoopState(comps, wires, la, lc, clusters, pegs, row_last) ==
    [components |-> comps, wires |-> wires, last_addr |-> la,
     last_cluster |-> lc, row_col_clusters |-> clusters,
     row_col_last_pegs |-> pegs, row_last_delayer |-> row_last]

\* variant of ChunkBody: the column keeps its cluster after the chunk delayer
ChunkBody_KeepsCluster(st, x, y, z, types) ==
    LET chunk_delayer == get_addr(st.last_addr)
        new_cluster == get_cluster(st.last_cluster)
    IN  LoopState(
            Append(st.components,
                   ChunkDelayer(chunk_delayer, row_boards[y], x, z, new_cluster,
                                st.row_col_clusters[y][x], types)),
            Append(st.wires,
                   ChunkWire(chunk_delayer, st.row_col_last_pegs[y][x],
                             st.row_col_clusters[y][x])),
            chunk_delayer,
            new_cluster,
            st.row_col_clusters,
            [st.row_col_last_pegs EXCEPT ![y][x] = chunk_delayer],
            st.row_last_delayer)

\* main.rs:199-230: the body of the chunk loops at column (x, y)
ChunkBody(st, x, y, z, types) ==
    LET chunk_delayer == get_addr(st.last_addr)
        new_cluster == get_cluster(st.last_cluster)
    IN  LoopState(
            Append(st.components,
                   ChunkDelayer(chunk_delayer, row_boards[y], x, z, new_cluster,
                                st.row_col_clusters[y][x], types)),
            Append(st.wires,
                   ChunkWire(chunk_delayer, st.row_col_last_pegs[y][x],
                             st.row_col_clusters[y][x])),
            chunk_delayer,
            new_cluster,
            [st.row_col_clusters EXCEPT ![y][x] = new_cluster],
            [st.row_col_last_pegs EXCEPT ![y][x] = chunk_delayer],
            st.row_last_delayer)

RECURSIVE ChunkPass(_, _, _, _)
\* main.rs:197-232
ChunkPass(st, k, z, types) ==
    IF k >= width * height THEN st
    ELSE ChunkPass(ChunkBody(st, k % width, k \div width, z, types), k + 1, z, types)

\* main.rs:242-328: the body of `if current_pixel != last_pixel`
ChangeBody(st, x, y, z, chunked, types) ==
    LET pixel_delayer == get_addr(st.last_addr)
        with_delayer ==
            Append(st.components,
                   PixelDelayer(pixel_delayer, row_boards[y], x, z,
                                row_frame_clusters[y][z],
                                st.row_col_clusters[y][x], types))
        pixel_peg == IF chunked THEN st.row_col_last_pegs[y][x]
                     ELSE get_addr(pixel_delayer)
        with_peg ==
            IF chunked THEN with_delayer
            ELSE Append(with_delayer,
                        PixelPeg(pixel_peg, row_boards[y], x, z,
                                 st.row_col_clusters[y][x], types))
        two_wires ==
            st.wires
            \o <<TapWire(st.row_last_delayer, pixel_delayer, row_frame_clusters[y][z]),
                 OutputWire(pixel_delayer, pixel_peg, st.row_col_clusters[y][x])>>
        all_wires ==
            IF chunked THEN two_wires
            ELSE Append(two_wires,
                        BackWire(pixel_peg, st.row_col_last_pegs[y][x],
                                 st.row_col_clusters[y][x]))
    IN  LoopState(with_peg, all_wires,
                  IF chunked THEN pixel_delayer ELSE pixel_peg,
                  st.last_cluster,
                  st.row_col_clusters,
                  [st.row_col_last_pegs EXCEPT ![y][x] = pixel_peg],
                  pixel_delayer)

\* variant of DiffBody: a row starts from the chain element before position z
DiffBody_PreviousElement(st, x, y, z, chunked, current, last, types) ==
    LET row_start ==
            IF x = 0 THEN [st EXCEPT !.row_last_delayer = row_frame_delayers[y][z - 1]]
            ELSE st
        last_pixel == to_1bit(get_pixel(last, x, height - 1 - y))
        current_pixel == to_1bit(get_pixel(current, x, height - 1 - y))
    IN  IF current_pixel # last_pixel
        THEN ChangeBody(row_start, x, y, z, chunked, types)
        ELSE row_start

\* variant of DiffBody: board row y reads image row y
DiffBody_Unflipped(st, x, y, z, chunked, current, last, types) ==
    LET row_start ==
            IF x = 0 THEN [st EXCEPT !.row_last_delayer = row_frame_delayers[y][z]]
            ELSE st
        last_pixel == to_1bit(get_pixel(last, x, y))
        current_pixel == to_1bit(get_pixel(current, x, y))
    IN  IF current_pixel # last_pixel
        THEN ChangeBody(row_start, x, y, z, chunked, types)
        ELSE row_start

\* main.rs:236-241: one iteration of the pixel loops at column (x, y)
DiffBody(st, x, y, z, chunked, current, last, types) ==
    LET row_start ==
            IF x = 0 THEN [st EXCEPT !.row_last_delayer = row_frame_delayers[y][z]]
            ELSE st
        last_pixel == to_1bit(get_pixel(last, x, height - 1 - y))
        current_pixel == to_1bit(get_pixel(current, x, height - 1 - y))
    IN  IF current_pixel # last_pixel
        THEN ChangeBody(row_start, x, y, z, chunked, types)
        ELSE row_start

RECURSIVE DiffPass(_, _, _, _, _, _, _)
\* main.rs:235-331
DiffPass(st, k, z, chunked, current, last, types) ==
    IF k >= width * height THEN st
    ELSE DiffPass(DiffBody(st, k % width, k \div width, z, chunked, current, last, types),
                  k + 1, z, chunked, current, last, types)

\* variant of FramePass: the diff pass is not told of the chunk boundary
FramePass_DiffUnchunked(index, current) ==
    LET z == (index + 1) * 2
        chunked == at_chunk_boundary(index)
        st0 == LoopState(<<>>, <<>>, last_addr, last_cluster,
                         row_col_clusters, row_col_last_pegs, 0)
        st1 == IF chunked THEN ChunkPass(st0, 0, z, file.component_types) ELSE st0
    IN  DiffPass(st1, 0, z, FALSE, current, last_frame, file.component_types)

\* main.rs:186-331: chunk pass (on a boundary) then diff pass of one frame
FramePass(index, current) ==
    LET z == (index + 1) * 2
        chunked == at_chunk_boundary(index)
        st0 == LoopState(<<>>, <<>>, last_addr, last_cluster,
                         row_col_clusters, row_col_last_pegs, 0)
        st1 == IF chunked THEN ChunkPass(st0, 0, z, file.component_types) ELSE st0
    IN  DiffPass(st1, 0, z, chunked, current, last_frame, file.component_types)

\* Vec::resize(n, value)
resize(s, n, value) == [i \in 1..n |-> IF i <= Len(s) THEN s[i] ELSE value]

---------------------------------------------------------------------------
(* The set-up part of inject, main.rs:49-183 *)

\* variant of Depth: two delayers per frame and none more
Depth_NoExtra(n) == n * 2

\* main.rs:49
Depth(n) == n * 2 + 1

\* main.rs:91-106: the boards of rows 0..height-1
Boards(boards, w, depth, types) ==
    [i \in 1..Len(boards) |-> Board(boards[i], i - 1, w, depth, types)]

\* main.rs:114-132: the delayers of one row's timing chain
ChainDelayers(frame_delayers, frame_clusters, parent, depth, types) ==
    [i \in 1..depth |->
        TimingDelayer(frame_delayers[i], parent, i - 1,
                      frame_clusters[i], frame_clusters[i + 1], types)]

\* main.rs:133-148: the wires of one row's timing chain (z = 1..depth-1)
ChainWires(frame_delayers, frame_clusters, depth) ==
    [z \in 1..(depth - 1) |->
        TimingWire(frame_delayers[z], frame_delayers[z + 1], frame_clusters[z + 1])]

RECURSIVE Chains(_, _, _, _, _, _)
\* main.rs:111-151: rows y..height-1; acc collects the vectors, components and wires
Chains(acc, y, h, boards, depth, types) ==
    IF y >= h THEN acc
    ELSE LET frame_clusters == take_cluster(acc.last_cluster, depth + 1)
             frame_delayers == take_addr(acc.last_addr, depth)
         IN  Chains([row_frame_clusters |-> Append(acc.row_frame_clusters, Vec(frame_clusters)),
                     row_frame_delayers |-> Append(acc.row_frame_delayers, Vec(frame_delayers)),
                     components |-> acc.components
                         \o ChainDelayers(frame_delayers, frame_clusters,
                                          boards[y + 1], depth, types),
                     wires |-> acc.wires \o ChainWires(frame_delayers, frame_clusters, depth),
                     last_addr |-> LastOf(acc.last_addr, frame_delayers),
                     last_cluster |-> LastOf(acc.last_cluster, frame_clusters)],
                    y + 1, h, boards, depth, types)

RECURSIVE ColClusters(_, _, _, _, _)
\* main.rs:153-157
ColClusters(acc, y, h, w, lc) ==
    IF y >= h THEN [rows |-> acc, last_cluster |-> lc]
    ELSE LET row_clusters == take_cluster(lc, w)
         IN  ColClusters(Append(acc, Vec(row_clusters)), y + 1, h, w,
                         LastOf(lc, row_clusters))

RECURSIVE Sockets(_, _, _, _, _, _, _)
\* main.rs:159-177
Sockets(acc, y, h, w, boards, clusters, types) ==
    IF y >= h THEN acc
    ELSE LET col_last_pegs == take_addr(acc.last_addr, w)
         IN  Sockets([rows |-> Append(acc.rows, Vec(col_last_pegs)),
                      components |-> acc.components
                          \o [i \in 1..w |->
                                Socket(col_last_pegs[i], boards[y + 1], i - 1,
                                       clusters[y][i - 1], types)],
                      last_addr |-> LastOf(acc.last_addr, col_last_pegs)],
                     y + 1, h, w, boards, clusters, types)

\* main.rs:49-183 on the netlist f with n frames of size w by h
SetUp(f, n, w, h) ==
    LET depth == Depth(n)
        types == f.component_types
        boards == take_addr(SeedAddr(f.components), h)
        chains == Chains([row_frame_clusters |-> <<>>, row_frame_delayers |-> <<>>,
                          components |-> <<>>, wires |-> <<>>,
                          last_addr |-> LastOf(SeedAddr(f.components), boards),
                          last_cluster |-> SeedCluster(f.components)],
                         0, h, boards, depth, types)
        cols == ColClusters(<<>>, 0, h, w, chains.last_cluster)
        socks == Sockets([rows |-> <<>>, components |-> <<>>,
                          last_addr |-> chains.last_addr],
                         0, h, w, boards, Vec(cols.rows), types)
    IN  [file |-> [f EXCEPT
                     !.components = @ \o Boards(boards, w, depth, types)
                                      \o chains.components \o socks.components,
                     !.wires = @ \o chains.wires],
         last_addr |-> socks.last_addr,
         last_cluster |-> cols.last_cluster,
         row_boards |-> Vec(boards),
         row_frame_clusters |-> Vec(chains.row_frame_clusters),
         row_frame_delayers |-> Vec(chains.row_frame_delayers),
         row_col_clusters |-> Vec(cols.rows),
         row_col_last_pegs |-> Vec(socks.rows)]

---------------------------------------------------------------------------
(* Pre-existing netlists and scenarios *)

NetFile(types, components, wires, states) ==
    [component_types |-> types, components |-> components, wires |-> wires,
     circuit_states |-> states]

\* pin lists of a pre-existing component: no pin, one input, or one output
PrePins ==
    {[inputs |-> <<>>, outputs |-> <<>>]}
    \cup {[inputs |-> <<[circuit_state_id |-> c]>>, outputs |-> <<>>] : c \in 1..MaxPreCluster}
    \cup {[inputs |-> <<>>, outputs |-> <<[circuit_state_id |-> c]>>] : c \in 1..MaxPreCluster}

PreComponents ==
    {Component(a, 0, 3, <<0, 0, 0>>, <<0, 0, 0, 1>>, p.inputs, p.outputs, None) :
        a \in 1..MaxPreAddr, p \in PrePins}

\* component lists with unique addresses, in any order
PreComponentLists ==
    UNION {{s \in [1..n -> PreComponents] :
                \A i, j \in 1..n : i # j => s[i].address # s[j].address} :
           n \in 0..MaxPreComps}

\* signal-state tables: the subassembly form, or a bitmap of set bits that
\* covers the clusters of the components
PreStates(components) ==
    {SubassemblyFormat}
    \cup {WorldFormat([i \in 1..n |-> 255]) :
            n \in {m \in 0..MaxPreBytes : 8 * m > SeedCluster(components) \/ components = <<>>}}

PreFiles ==
    UNION {{NetFile(FullCatalog, comps, <<>>, st) : st \in PreStates(comps)} :
           comps \in PreComponentLists}

\* a save with two components, addresses out of order, and a one-byte bitmap
DefaultFile ==
    NetFile(FullCatalog,
            <<Component(2, 0, 3, <<0, 0, 0>>, <<0, 0, 0, 1>>,
                        <<[circuit_state_id |-> 1]>>, <<>>, None),
              Component(1, 0, 2, <<0, 0, 0>>, <<0, 0, 0, 1>>,
                        <<[circuit_state_id |-> 1]>>, <<[circuit_state_id |-> 2]>>,
                        Some(<<0, 0, 0, 0, 1, 0, 0, 0>>))>>,
            <<Wire(PegAddress(TRUE, 2, 0), PegAddress(TRUE, 1, 0), 1)>>,
            WorldFormat(<<255>>))

\* saves whose catalog lacks one of the four kinds
LackingFiles ==
    {[DefaultFile EXCEPT !.component_types = {ty \in FullCatalog : ty.text_id # t}] :
        t \in TextIds}

Scenario(f, n, w, h, runs, changes) ==
    [file |-> f, frame_count |-> n, width |-> w, height |-> h,
     invocations |-> runs, change_frames |-> changes]

\* any pre-existing netlist, one frame of one pixel
FileScenarios == {Scenario(f, 1, 1, 1, 1, {1}) : f \in PreFiles}

\* short frame sequences: every image of every frame is free
ShortScenarios ==
    {Scenario(DefaultFile, c[1], c[2], c[3],
              IF c[1] * c[2] * c[3] <= MaxRerunCells THEN MaxRuns ELSE 1, 1..c[1]) :
        c \in {e \in (1..MaxCells) \X (1..MaxCells) \X (1..MaxCells) :
                 e[1] * e[2] * e[3] <= MaxCells}}

\* frame sequences that cross a chunk boundary, one pixel
LongScenarios ==
    {Scenario(DefaultFile, n, 1, 1, 1,
              {f \in 1..n : \E b \in 0..n :
                               /\ b % ChunkPeriod = 0
                               /\ f - b <= ChangeWindow
                               /\ b - f <= ChangeWindow}) :
        n \in ChunkPeriod..(ChunkPeriod + MaxExtraFrames)}

\* runs that fail before generation: no frame, or a kind missing from the catalog
FailingScenarios ==
    {Scenario(DefaultFile, 0, 0, 0, 1, {})}
    \cup {Scenario(f, 1, 1, 1, 1, {1}) : f \in LackingFiles}

Scenarios == FileScenarios \cup ShortScenarios \cup LongScenarios \cup FailingScenarios

---------------------------------------------------------------------------
(* State machine *)

\* a file that was created but not completely written: no netlist
Truncated == [truncated |-> TRUE]

NoLocals ==
    /\ last_addr = 0 /\ last_cluster = 0
    /\ row_boards = <<>> /\ row_frame_clusters = <<>> /\ row_frame_delayers = <<>>
    /\ row_col_clusters = <<>> /\ row_col_last_pegs = <<>>
    /\ last_frame = <<>> /\ frame_index = 0

\* main.rs:16-25: the file has been read, inject has not begun
Init ==
    \E s \in Scenarios :
        /\ pc = "start" /\ run = 1
        /\ invocations = s.invocations
        /\ disk = s.file /\ before = s.file /\ original = s.file
        /\ file = s.file
        /\ frame_count = s.frame_count
        /\ width = s.width /\ height = s.height
        /\ change_frames = s.change_frames
        /\ opened = <<>>
        /\ NoLocals

\* main.rs:36-183: inject up to the frame loop, the target file aside
BeginInject ==
    /\ pc = "start"
    /\ frame_count > 0
    /\ CatalogComplete(file.component_types)
    /\ LET s == SetUp(file, frame_count, width, height)
       IN  /\ file' = s.file
           /\ last_addr' = s.last_addr
           /\ last_cluster' = s.last_cluster
           /\ row_boards' = s.row_boards
           /\ row_frame_clusters' = s.row_frame_clusters
           /\ row_frame_delayers' = s.row_frame_delayers
           /\ row_col_clusters' = s.row_col_clusters
           /\ row_col_last_pegs' = s.row_col_last_pegs
    /\ last_frame' = BlackFrame(width, height)
    /\ frame_index' = 0
    /\ pc' = "frames"
    /\ UNCHANGED <<run, invocations, before, original, frame_count, width,
                   height, change_frames, opened>>

\* variant of Generate: the output file is created before inject is called
Generate_CreatesFirst == BeginInject /\ disk' = Truncated

\* main.rs:27-29: inject runs before File::create, so the target file is untouched
Generate == BeginInject /\ UNCHANGED disk

\* main.rs:43 and 57-60: frame_files[0] or component_id_map[..] panics
GenerateFails ==
    /\ pc = "start"
    /\ frame_count = 0 \/ ~CatalogComplete(file.component_types)
    /\ pc' = "failed"
    /\ UNCHANGED <<run, invocations, disk, before, original, frame_count, width,
                   height, change_frames, opened, file, last_addr, last_cluster,
                   row_boards, row_frame_clusters, row_frame_delayers,
                   row_col_clusters, row_col_last_pegs, last_frame, frame_index>>

\* main.rs:187: what image::open(path) can return for the frame at 0-based index
OpenFrame(index) ==
    IF index < Len(opened) THEN {opened[index + 1]}
    ELSE IF index + 1 \notin change_frames THEN {last_frame}
    ELSE GoodFrames(width, height)
         \cup (IF index = 0 THEN {} ELSE BadFrames(width, height))

FrameFits(frame) == frame.width = width /\ frame.height = height

\* main.rs:185-334: one iteration of the frame loop
ProcessFrame ==
    /\ pc = "frames"
    /\ frame_index < frame_count
    /\ \E current_frame \in OpenFrame(frame_index) :
        /\ FrameFits(current_frame)
        /\ opened' = IF frame_index < Len(opened) THEN opened
                     ELSE Append(opened, current_frame)
        /\ LET st == FramePass(frame_index, current_frame)
           IN  /\ file' = [file EXCEPT !.components = @ \o st.components,
                                       !.wires = @ \o st.wires]
               /\ last_addr' = st.last_addr
               /\ last_cluster' = st.last_cluster
               /\ row_col_clusters' = st.row_col_clusters
               /\ row_col_last_pegs' = st.row_col_last_pegs
        /\ last_frame' = current_frame
    /\ frame_index' = frame_index + 1
    /\ UNCHANGED <<pc, run, invocations, disk, before, original, frame_count, width,
                   height, change_frames, row_boards, row_frame_clusters,
                   row_frame_delayers>>

\* main.rs:188-190: bail!("frame does not match size of first frame")
FrameMismatch ==
    /\ pc = "frames"
    /\ frame_index < frame_count
    /\ \E current_frame \in OpenFrame(frame_index) :
        /\ ~FrameFits(current_frame)
        /\ opened' = Append(opened, current_frame)
    /\ pc' = "failed"
    /\ UNCHANGED <<run, invocations, disk, before, original, frame_count, width,
                   height, change_frames, file, last_addr, last_cluster,
                   row_boards, row_frame_clusters, row_frame_delayers,
                   row_col_clusters, row_col_last_pegs, last_frame, frame_index>>

\* variant of BitmapLen: the byte count rounded down
BitmapLen_Floor(num_clusters) == num_clusters \div 8

\* main.rs:340
BitmapLen(num_clusters) == (num_clusters - 1) \div 8 + 1

\* main.rs:336-344: the end of inject
Finish ==
    /\ pc = "frames"
    /\ frame_index = frame_count
    /\ LET num_clusters == last_cluster + 1
       IN  file' = IF file.circuit_states.format = "WorldFormat"
                   THEN [file EXCEPT !.circuit_states.circuit_states =
                                        resize(@, BitmapLen(num_clusters), 0)]
                   ELSE file
    /\ pc' = "injected"
    /\ UNCHANGED <<run, invocations, disk, before, original, frame_count, width,
                   height, change_frames, opened, last_addr, last_cluster,
                   row_boards, row_frame_clusters, row_frame_delayers,
                   row_col_clusters, row_col_last_pegs, last_frame, frame_index>>

\* main.rs:29: File::create truncates the target file
CreateFile ==
    /\ pc = "injected"
    /\ disk' = Truncated
    /\ pc' = "created"
    /\ UNCHANGED <<run, invocations, before, original, frame_count, width,
                   height, change_frames, opened, file, last_addr, last_cluster,
                   row_boards, row_frame_clusters, row_frame_delayers,
                   row_col_clusters, row_col_last_pegs, last_frame, frame_index>>

\* main.rs:29: File::create returns an error
CreateFails ==
    /\ pc = "injected"
    /\ pc' = "write_failed"
    /\ UNCHANGED <<run, invocations, disk, before, original, frame_count, width,
                   height, change_frames, opened, file, last_addr, last_cluster,
                   row_boards, row_frame_clusters, row_frame_delayers,
                   row_col_clusters, row_col_last_pegs, last_frame, frame_index>>

\* main.rs:30-33: the netlist is written and flushed
WriteFile ==
    /\ pc = "created"
    /\ disk' = file
    /\ pc' = "done"
    /\ UNCHANGED <<run, invocations, before, original, frame_count, width,
                   height, change_frames, opened, file, last_addr, last_cluster,
                   row_boards, row_frame_clusters, row_frame_delayers,
                   row_col_clusters, row_col_last_pegs, last_frame, frame_index>>

\* main.rs:30-31: file.write or writer.flush returns an error
WriteFails ==
    /\ pc = "created"
    /\ pc' = "write_failed"
    /\ UNCHANGED <<run, invocations, disk, before, original, frame_count, width,
                   height, change_frames, opened, file, last_addr, last_cluster,
                   row_boards, row_frame_clusters, row_frame_delayers,
                   row_col_clusters, row_col_last_pegs, last_frame, frame_index>>

\* the program is run again on the file it wrote: main.rs:16-25 of the next run
RunAgain ==
    /\ pc = "done"
    /\ run < invocations
    /\ run' = run + 1
    /\ file' = disk
    /\ before' = disk
    /\ pc' = "start"
    /\ last_addr' = 0 /\ last_cluster' = 0
    /\ row_boards' = <<>> /\ row_frame_clusters' = <<>> /\ row_frame_delayers' = <<>>
    /\ row_col_clusters' = <<>> /\ row_col_last_pegs' = <<>>
    /\ last_frame' = <<>> /\ frame_index' = 0
    /\ UNCHANGED <<invocations, disk, original, frame_count, width, height,
                   change_frames, opened>>

Next ==
    \/ Generate
    \/ GenerateFails
    \/ ProcessFrame
    \/ FrameMismatch
    \/ Finish
    \/ CreateFile
    \/ CreateFails
    \/ WriteFile
    \/ WriteFails
    \/ RunAgain

Spec == Init /\ [][Next]_vars

---------------------------------------------------------------------------
(* Views of the netlist used to state the properties *)

Range(s) == {s[i] : i \in DOMAIN s}

\* the components and wires this run has added to the file it read
NumOld == Len(before.components)
NumOldWires == Len(before.wires)
NewIndices == (NumOld + 1)..Len(file.components)
NewWireIndices == (NumOldWires + 1)..Len(file.wires)

\* every pin of the components comps[i], i in idx: address, side, index, cluster
PinsOf(comps, idx) ==
    UNION {{<<comps[i].address, TRUE, k - 1, comps[i].inputs[k].circuit_state_id>> :
                k \in 1..Len(comps[i].inputs)}
           \cup {<<comps[i].address, FALSE, k - 1, comps[i].outputs[k].circuit_state_id>> :
                k \in 1..Len(comps[i].outputs)} : i \in idx}

\* the cluster ids on pins and wires of a netlist
ClustersInUse(f) ==
    {p[4] : p \in PinsOf(f.components, 1..Len(f.components))}
    \cup {f.wires[i].circuit_state_id : i \in 1..Len(f.wires)}

\* numeric ids of the kinds, as the file's catalog gives them
DelayerId == component_id_map(file.component_types)["MHG.Delayer"]
PegId == component_id_map(file.component_types)["MHG.Peg"]
SocketId == component_id_map(file.component_types)["MHG.ChubbySocket"]

\* the delay of a delayer in ticks: bytes 4..7 of its custom data, little endian
TicksOf(c) ==
    LET d == c.custom_data[1]
    IN  d[5] + 256 * d[6] + 65536 * d[7] + 16777216 * d[8]

\* the thresholded value of image pixel (x, y) in frame f; frame 0 is all off
PixelOn(f, x, y) == IF f = 0 THEN FALSE ELSE opened[f].px[<<x, y>>] > 127

\* column x of board row y shows image pixel (x, height - 1 - y)
Flipped(f, x, y) ==
    PixelOn(f, x, height - 1 - y) # PixelOn(f - 1, x, height - 1 - y)

Columns == (0..(width - 1)) \X (0..(height - 1))

\* the changes of value in the frames processed so far, as <<f, x, y>>
FlipSet ==
    {t \in (1..frame_index) \X (0..(width - 1)) \X (0..(height - 1)) :
        Flipped(t[1], t[2], t[3])}

\* the chunk-boundary frames processed so far
ChunkFrames == {f \in 1..frame_index : f % 200 = 0}

\* generated delayers standing on the pixel-delayer lane of a column
PixelDelayerIndices ==
    {i \in NewIndices : /\ file.components[i].type_id = DelayerId
                        /\ file.components[i].position[1] % 90 = 45}

\* generated delayers standing on the tap lane of a column
ChunkDelayerIndices ==
    {i \in NewIndices : /\ file.components[i].type_id = DelayerId
                        /\ file.components[i].position[1] % 90 = 75}

Generating == {"frames", "injected"}
AfterInject == {"injected", "created", "done", "write_failed"}

---------------------------------------------------------------------------
(* C1: after inject, no two components of file.components share an address,
   and every generated address is greater than every pre-existing address
   and than every address generated before it. *)
C1_AddressesUniqueAndIncreasing ==
    pc \in AfterInject =>
        LET comps == file.components
            n == Len(comps)
        IN  /\ Cardinality({comps[i].address : i \in 1..n}) = n
            /\ \A i \in NewIndices :
                 \A j \in 1..(i - 1) : comps[j].address < comps[i].address

\* inject has run on a netlist whose addresses are out of order, and on a
\* netlist it generated itself
C1_Witness ==
    /\ pc = "done" /\ run = 2
    /\ original.components[1].address > original.components[2].address
    /\ Len(file.components) > NumOld + 4

(* C2: during generation every cluster id on a pin or a wire is below
   last_cluster + 1; and a WorldFormat bitmap has, after generation, more
   bits than the largest cluster id in use. *)
C2_ClustersBelowBound ==
    /\ pc \in Generating =>
         \A c \in ClustersInUse(file) : c < last_cluster + 1
    /\ (pc \in AfterInject /\ file.circuit_states.format = "WorldFormat") =>
         \A c \in ClustersInUse(file) : c < 8 * Len(file.circuit_states.circuit_states)

\* a bitmap that had to grow, on a cluster bound that is a multiple of 8 away
C2_Witness ==
    /\ pc = "injected"
    /\ file.circuit_states.format = "WorldFormat"
    /\ Len(file.circuit_states.circuit_states) > Len(before.circuit_states.circuit_states)
    /\ last_cluster % 8 = 0
    /\ last_cluster \in ClustersInUse(file)

(* C7: after every step of generation, both ends of every generated wire
   name an existing pin of an existing component, and the wire's cluster id
   is the cluster id bound to either pin. *)
C7_WiresConsistent ==
    pc \in Generating =>
        LET pins == PinsOf(file.components, 1..Len(file.components))
        IN  \A i \in NewWireIndices :
              LET w == file.wires[i]
              IN  /\ <<w.start_peg.component_address, w.start_peg.is_input,
                       w.start_peg.peg_index, w.circuit_state_id>> \in pins
                  /\ <<w.end_peg.component_address, w.end_peg.is_input,
                       w.end_peg.peg_index, w.circuit_state_id>> \in pins

\* wires of every kind exist: chain wires, a chunk wire, tap wires, an
\* output wire into a chunk delayer, and a back wire from a peg to that delayer
C7_Witness ==
    /\ pc = "injected"
    /\ frame_count > ChunkPeriod
    /\ \E i, j \in NewWireIndices :
         /\ file.wires[j].start_peg.is_input
         /\ file.wires[j].start_peg.component_address = row_col_last_pegs[0][0]
         /\ file.wires[j].end_peg.component_address
              = file.wires[i].start_peg.component_address
         /\ ~file.wires[i].start_peg.is_input
    /\ Len(file.wires) - NumOldWires >= 2 * frame_count + 6

(* C3: for every row the timing chain has exactly D = 2F+1 delay elements
   and D+1 distinct fresh clusters, element k's output cluster is element
   k+1's input cluster, exactly D-1 wires join consecutive elements output
   to input, and the element at 1-indexed position k lasts 9 ticks if
   k % 400 = 0 and 10 ticks otherwise. *)
C3_TimingChain ==
    pc \in Generating \cup AfterInject =>
      \A y \in 0..(height - 1) :
        LET D == 2 * frame_count + 1
            comps == file.components
            del == row_frame_delayers[y]
            cl == row_frame_clusters[y]
            addrs == {del[z] : z \in DOMAIN del}
            chain == {i \in NewIndices : comps[i].address \in addrs}
            joins == {i \in NewWireIndices :
                        /\ file.wires[i].start_peg.component_address \in addrs
                        /\ file.wires[i].end_peg.component_address \in addrs}
        IN  /\ DOMAIN del = 0..(D - 1)
            /\ DOMAIN cl = 0..D
            /\ Cardinality(addrs) = D
            /\ Cardinality(chain) = D
            /\ Cardinality({cl[z] : z \in 0..D}) = D + 1
            /\ \A z \in 0..D : cl[z] \notin ClustersInUse(before)
            /\ \A y2 \in 0..(height - 1) :
                 y2 # y => \A z \in 0..D : cl[z] \notin Range(row_frame_clusters[y2])
            /\ {<<comps[i].address, comps[i].parent, comps[i].type_id,
                  comps[i].inputs, comps[i].outputs, TicksOf(comps[i])>> : i \in chain}
               = {<<del[k - 1], row_boards[y], DelayerId,
                    <<[circuit_state_id |-> cl[k - 1]]>>,
                    <<[circuit_state_id |-> cl[k]]>>,
                    IF k % 400 = 0 THEN 9 ELSE 10>> : k \in 1..D}
            /\ Cardinality(joins) = D - 1
            /\ {<<file.wires[i].start_peg, file.wires[i].end_peg>> : i \in joins}
               = {<<PegAddress(FALSE, del[k - 1], 0), PegAddress(TRUE, del[k], 0)>> :
                     k \in 1..(D - 1)}

\* a chain long enough to hold a 9-tick element, with taps on it
C3_Witness ==
    /\ pc = "injected"
    /\ frame_count >= ChunkPeriod
    /\ FlipSet # {}
    /\ \E i \in NewIndices :
         /\ file.components[i].address = row_frame_delayers[0][399]
         /\ TicksOf(file.components[i]) = 9

(* C4: the diff pass of frame f creates exactly one pixel delayer of 1 tick
   for a pixel whose thresholded value differs from its value in frame f-1
   (frame 0 all off) and nothing for an unchanged pixel, so the pixel
   delayers of a column are as many as the value flips of its pixel. The
   totals count a peg and three wires per flip on an ordinary frame, two
   wires per flip on a chunk boundary, and the set-up and chunk passes. *)
C4_OneDelayerPerFlip ==
    pc \in Generating \cup AfterInject =>
      LET comps == file.components
          D == 2 * frame_count + 1
          ordinary == {t \in FlipSet : t[1] % 200 # 0}
          chunks == Cardinality(ChunkFrames) * width * height
      IN  /\ {<<comps[i].parent, comps[i].position>> : i \in PixelDelayerIndices}
             = {<<row_boards[t[3]], <<90 * t[2] + 45, 15, 120 * t[1] - 15>>>> : t \in FlipSet}
          /\ Cardinality(PixelDelayerIndices) = Cardinality(FlipSet)
          /\ \A i \in PixelDelayerIndices : TicksOf(comps[i]) = 1
          /\ Len(comps) - NumOld
               = height + height * D + width * height + chunks
                 + Cardinality(FlipSet) + Cardinality(ordinary)
          /\ Len(file.wires) - NumOldWires
               = height * (D - 1) + chunks
                 + 2 * Cardinality(FlipSet) + Cardinality(ordinary)
          /\ \A c \in Columns :
               Cardinality({i \in PixelDelayerIndices :
                              /\ comps[i].parent = row_boards[c[2]]
                              /\ comps[i].position[1] = 90 * c[1] + 45})
               = Cardinality({f \in 1..frame_index : Flipped(f, c[1], c[2])})

\* two rows and two columns: one pixel flips twice, another never
C4_Witness ==
    /\ pc = "injected"
    /\ width = 2 /\ height = 2 /\ frame_count = 2
    /\ Flipped(1, 0, 0) /\ Flipped(2, 0, 0)
    /\ ~Flipped(1, 1, 1) /\ ~Flipped(2, 1, 1)
    /\ Flipped(2, 0, 1)

(* C5: the chunk pass runs exactly at the 1-indexed frames f with
   f % 200 = 0, before that frame's pixel diffs, and creates one forced
   delayer of 1 tick and one wire per column whether or not a pixel
   changes; in the end there are W*H*floor(F/200) chunk delayers. *)
C5_ChunkPass ==
    pc \in Generating \cup AfterInject =>
      LET comps == file.components
      IN  /\ {<<comps[i].parent, comps[i].position>> : i \in ChunkDelayerIndices}
             = {<<row_boards[c[2]], <<90 * c[1] + 75, 15, 120 * f - 45>>>> :
                   f \in ChunkFrames, c \in Columns}
          /\ Cardinality(ChunkDelayerIndices)
               = width * height * Cardinality(ChunkFrames)
          /\ \A i \in ChunkDelayerIndices :
               /\ TicksOf(comps[i]) = 1
               /\ Cardinality({j \in NewWireIndices :
                      file.wires[j].start_peg = PegAddress(FALSE, comps[i].address, 0)}) = 1
               /\ \A j \in PixelDelayerIndices :
                    comps[j].position[3] + 15 = comps[i].position[3] + 45 => i < j
          /\ pc \in AfterInject =>
               Cardinality(ChunkDelayerIndices) = width * height * (frame_count \div 200)

\* more than 200 frames without a single change of value
C5_Witness ==
    /\ pc = "injected"
    /\ frame_count > ChunkPeriod
    /\ FlipSet = {}
    /\ ChunkDelayerIndices # {}

RECURSIVE SetSum(_, _)
\* the sum of weight[v] over v in S
SetSum(S, weight) ==
    IF S = {} THEN 0
    ELSE LET v == CHOOSE u \in S : TRUE
         IN  weight[v] + SetSum(S \ {v}, weight)

\* the summed delay of the components comps[i], i in idx
TicksSum(idx) ==
    LET values == {TicksOf(file.components[i]) : i \in idx}
    IN  SetSum(values,
               [v \in values |->
                  v * Cardinality({i \in idx : TicksOf(file.components[i]) = v})])

\* the generated socket of column (x, y)
SocketIndex(x, y) ==
    CHOOSE i \in NewIndices :
        /\ file.components[i].type_id = SocketId
        /\ file.components[i].parent = row_boards[y]
        /\ file.components[i].position = <<90 * x + 75, 15, 15>>

NoPath == 0 - 1000000

RECURSIVE PathTicks(_, _, _)
\* the summed delay of the chunk delayers that lead from cluster c to the
\* cluster target, each entered at its input and left at its output
PathTicks(c, target, fuel) ==
    IF c = target THEN 0
    ELSE LET next == {j \in ChunkDelayerIndices :
                        file.components[j].inputs[1].circuit_state_id = c}
         IN  IF fuel = 0 \/ Cardinality(next) # 1 THEN NoPath
             ELSE LET j == CHOOSE k \in next : TRUE
                  IN  TicksOf(file.components[j])
                      + PathTicks(file.components[j].outputs[1].circuit_state_id,
                                  target, fuel - 1)

(* C6: for every pixel delayer, created at frame f in a column, the delays
   of the row's timing elements at 1-indexed positions 1..2f, whose last
   output feeds the pixel delayer, plus the pixel delayer's tick, plus one
   tick per chunk delayer between its output cluster and the column's
   initial socket cluster, add up to 20*f + 1. *)
C6_TimingExact ==
    pc \in Generating \cup AfterInject =>
      \A i \in PixelDelayerIndices :
        LET comps == file.components
            p == comps[i]
            f == (p.position[3] + 15) \div 120
            x == (p.position[1] - 45) \div 90
            y == CHOOSE r \in 0..(height - 1) : row_boards[r] = p.parent
            upstream_addrs == {row_frame_delayers[y][z] : z \in 0..(2 * f - 1)}
            upstream == {j \in NewIndices : comps[j].address \in upstream_addrs}
            socket == comps[SocketIndex(x, y)]
        IN  /\ Cardinality(upstream) = 2 * f
            /\ \E j \in upstream :
                 /\ comps[j].address = row_frame_delayers[y][2 * f - 1]
                 /\ comps[j].outputs = p.inputs
            /\ TicksSum(upstream) + TicksOf(p)
               + PathTicks(p.outputs[1].circuit_state_id,
                           socket.inputs[1].circuit_state_id, frame_count)
               = 20 * f + 1

\* pixel delayers before, on and after the chunk boundary of frame 200
C6_Witness ==
    /\ pc = "injected"
    /\ \E i, j, k \in PixelDelayerIndices :
         /\ file.components[i].position[3] = 120 * 199 - 15
         /\ file.components[j].position[3] = 120 * 200 - 15
         /\ file.components[k].position[3] = 120 * 201 - 15

(* C8: if generation fails (a frame of another size, no frame, a kind
   missing from the catalog) the run ends without reaching the write step
   and the target file is what it was before the run. *)
C8_FailureLeavesFile ==
    pc = "failed" =>
        /\ disk = before
        /\ ~ENABLED CreateFile
        /\ ~ENABLED WriteFile

\* a frame of another size after a frame that changed a pixel
C8_Witness ==
    /\ pc = "failed"
    /\ frame_index >= 1
    /\ PixelDelayerIndices # {}
    /\ Len(file.wires) > Len(disk.wires)

\* the index of the component with address a
IndexOf(a) == CHOOSE i \in 1..Len(file.components) : file.components[i].address = a

\* the wires that lead from tap t back to the tap before it: from the input
\* pin of a peg, from the output pin of a chunk delayer
BackWires(t) ==
    {j \in NewWireIndices :
        file.wires[j].start_peg = PegAddress(t.type_id = PegId, t.address, 0)}

\* the taps met from the tap with address a back to a socket, the socket
\* last; Lost is appended where the way back is missing or forks
Lost == <<0, FALSE, <<0, 0, 0>>>>

RECURSIVE TapWalk(_, _)
TapWalk(a, fuel) ==
    LET t == file.components[IndexOf(a)]
        here == <<t.parent, t.type_id = SocketId, t.position>>
    IN  IF t.type_id = SocketId THEN <<here>>
        ELSE IF fuel = 0 \/ Cardinality(BackWires(t)) # 1 THEN <<here, Lost>>
        ELSE LET j == CHOOSE k \in BackWires(t) : TRUE
             IN  <<here>> \o TapWalk(file.wires[j].end_peg.component_address, fuel - 1)

RECURSIVE Descending(_)
\* the numbers of S, largest first
Descending(S) ==
    IF S = {} THEN <<>>
    ELSE LET m == CHOOSE u \in S : \A v \in S : v <= u
         IN  <<m>> \o Descending(S \ {m})

\* the walk expected for column (x, y) when its taps stand at the frames of S
ExpectedWalk(x, y, S) ==
    LET fs == Descending(S)
    IN  [k \in 1..Len(fs) |-> <<row_boards[y], FALSE, <<90 * x + 75, 15, 120 * fs[k] - 45>>>>]
        \o <<<<row_boards[y], TRUE, <<90 * x + 75, 15, 15>>>>>>

FlipFrames(x, y) == {f \in 1..frame_index : Flipped(f, x, y)}

(* C9 as stated: after the last frame the taps met from lastConnector[y][x]
   back to the column's initial socket are one per value flip of the column,
   in frame order, and no others. *)
C9_TapsAreFlips ==
    pc \in AfterInject =>
      \A c \in Columns :
        TapWalk(row_col_last_pegs[c[2]][c[1]], frame_count)
          = ExpectedWalk(c[1], c[2], FlipFrames(c[1], c[2]))

(* C9 amended: after the last frame the taps met from lastConnector[y][x]
   back to the column's initial socket are, in frame order, one per frame
   that flips the column's value or is a chunk boundary (the chunk delayer
   of a boundary frame is a tap whether or not the value flips there), and
   no others. *)
C9_TapsAreFlipsAndChunks ==
    pc \in AfterInject =>
      \A c \in Columns :
        TapWalk(row_col_last_pegs[c[2]][c[1]], frame_count)
          = ExpectedWalk(c[1], c[2], FlipFrames(c[1], c[2]) \cup ChunkFrames)

\* a column that flips before and after a chunk boundary but not on it
C9_Witness ==
    /\ pc = "injected"
    /\ frame_count > ChunkPeriod
    /\ FlipFrames(0, 0) = {1, 199, 201}

(* C10: a second run on the same netlist with the same frames keeps the
   first run's components and wires, adds as many components and wires as
   the first run did, and uses no address and no cluster id of the netlist
   it started from. *)
C10_SecondRunAppends ==
    (run >= 2 /\ pc \in AfterInject) =>
      LET comps == file.components
      IN  /\ SubSeq(comps, 1, NumOld) = before.components
          /\ SubSeq(file.wires, 1, NumOldWires) = before.wires
          /\ (Len(comps) - NumOld) * (run - 1) = NumOld - Len(original.components)
          /\ (Len(file.wires) - NumOldWires) * (run - 1)
               = NumOldWires - Len(original.wires)
          /\ \A i \in NewIndices :
               comps[i].address \notin {before.components[j].address : j \in 1..NumOld}
          /\ ({p[4] : p \in PinsOf(comps, NewIndices)}
              \cup {file.wires[i].circuit_state_id : i \in NewWireIndices})
             \cap ClustersInUse(before) = {}

\* a second run over several columns and rows with pixel changes
C10_Witness ==
    /\ run = 2 /\ pc = "injected"
    /\ width * height > 1
    /\ Cardinality(FlipSet) > 1
    /\ Len(file.components) > NumOld

\* generated pegs: the connectors of the pixel changes on ordinary frames
PegIndices == {i \in NewIndices : file.components[i].type_id = PegId}

\* the column (x, y) a generated tap-lane or pixel-lane component stands in
ColumnOf(c) ==
    <<c.position[1] \div 90, CHOOSE r \in 0..(height - 1) : row_boards[r] = c.parent>>

\* the cluster id bound to input pin 0 of the component with address a
InputClusterOf(a) == file.components[IndexOf(a)].inputs[1].circuit_state_id

\* the input cluster of the latest chunk delayer of column (x, y), or of the
\* column's socket when no chunk pass has run
ColumnCluster(x, y) ==
    LET comps == file.components
        cds == {i \in ChunkDelayerIndices : /\ comps[i].parent = row_boards[y]
                                            /\ comps[i].position[1] = 90 * x + 75}
    IN  IF cds = {} THEN comps[SocketIndex(x, y)].inputs[1].circuit_state_id
        ELSE comps[CHOOSE i \in cds : \A j \in cds : j <= i].inputs[1].circuit_state_id

(* C11 as stated: on a frame that is not a chunk boundary, the connector
   created for a pixel change has its input bound to a cluster id allocated
   for it, one that no component created before this change is bound to,
   and lastCluster[y][x] becomes that cluster. *)
C11_PegClusterFresh ==
    pc \in Generating \cup AfterInject =>
      \A i \in PegIndices :
        LET comps == file.components
            c == comps[i].inputs[1].circuit_state_id
            col == ColumnOf(comps[i])
        IN  /\ \A p \in PinsOf(comps, 1..(i - 2)) : p[4] # c
            /\ row_col_last_pegs[col[2]][col[1]] = comps[i].address
                 => row_col_clusters[col[2]][col[1]] = c

(* C11 amended: on a frame that is not a chunk boundary, the connector
   created for a pixel change has its input bound to the column's current
   cluster lastCluster[y][x], the cluster of the pixel delayer's output and
   of the previous tap's input; the diff pass allocates no cluster and
   leaves lastCluster[y][x] as it is (the socket's cluster, or the input
   cluster of the column's latest chunk delayer); only lastConnector[y][x]
   is updated. *)
C11_PegSharesColumnCluster ==
    pc \in Generating \cup AfterInject =>
      LET comps == file.components
          D == 2 * frame_count + 1
      IN  /\ \A i \in PegIndices :
               LET c == comps[i].inputs[1].circuit_state_id
                   back == BackWires(comps[i])
               IN  /\ i - 1 \in PixelDelayerIndices
                   /\ comps[i - 1].position[3] + 15 = comps[i].position[3] + 45
                   /\ comps[i - 1].outputs[1].circuit_state_id = c
                   /\ \E p \in PinsOf(comps, NewIndices \cap (1..(i - 2))) : p[4] = c
                   /\ Cardinality(back) = 1
                   /\ \A j \in back :
                        InputClusterOf(file.wires[j].end_peg.component_address) = c
          /\ last_cluster = SeedCluster(before.components) + height * (D + 1)
                            + width * height
                            + width * height * Cardinality(ChunkFrames)
          /\ \A col \in Columns :
               /\ row_col_clusters[col[2]][col[1]] = ColumnCluster(col[1], col[2])
               /\ InputClusterOf(row_col_last_pegs[col[2]][col[1]])
                    = row_col_clusters[col[2]][col[1]]

\* a column that changes on an ordinary frame before a chunk boundary and
\* on one after it
C11_Witness ==
    /\ pc = "injected"
    /\ frame_count > ChunkPeriod
    /\ FlipFrames(0, 0) = {199, 201}
    /\ Cardinality(PegIndices) = 2

\* the tap of column (x, y) that was lastConnector[y][x] when frame f began,
\* as <<parent, is a socket, position>>
TapBefore(x, y, f) ==
    ExpectedWalk(x, y, {g \in FlipFrames(x, y) \cup ChunkFrames : g < f})[1]

\* the wires that start at the output pin of the component with address a
OutputWiresOf(a) ==
    {j \in NewWireIndices : file.wires[j].start_peg = PegAddress(FALSE, a, 0)}

(* C12 as stated: in a chunk pass the forced delayer's output pin is bound
   to the freshly allocated cluster and wired to the previous
   lastConnector[y][x]; afterwards lastConnector[y][x] is the new delayer and
   lastCluster[y][x] is the fresh cluster. *)
C12_ChunkOutputFresh ==
    pc \in Generating \cup AfterInject =>
      \A i \in ChunkDelayerIndices :
        LET comps == file.components
            d == comps[i]
            col == ColumnOf(d)
            f == (d.position[3] + 45) \div 120
            out == d.outputs[1].circuit_state_id
        IN  /\ \A p \in PinsOf(comps, 1..(i - 1)) : p[4] # out
            /\ \A j \in OutputWiresOf(d.address) :
                 LET t == comps[IndexOf(file.wires[j].end_peg.component_address)]
                 IN  <<t.parent, t.type_id = SocketId, t.position>>
                       = TapBefore(col[1], col[2], f)
            /\ frame_index = f =>
                 /\ row_col_last_pegs[col[2]][col[1]] = d.address
                 /\ row_col_clusters[col[2]][col[1]] = out

(* C12 amended: in a chunk pass, for every column, the forced delayer's
   input pin is bound to the freshly allocated cluster; its output pin is
   bound to the column's previous cluster lastCluster[y][x] and wired, on
   that cluster, to the input pin of the previous lastConnector[y][x];
   afterwards lastConnector[y][x] is the new delayer and lastCluster[y][x]
   is the fresh cluster, the one on the delayer's input. *)
C12_ChunkInputFresh ==
    pc \in Generating \cup AfterInject =>
      \A i \in ChunkDelayerIndices :
        LET comps == file.components
            d == comps[i]
            col == ColumnOf(d)
            f == (d.position[3] + 45) \div 120
            in == d.inputs[1].circuit_state_id
            out == d.outputs[1].circuit_state_id
        IN  /\ \A p \in PinsOf(comps, 1..(i - 1)) : p[4] < in
            /\ \E p \in PinsOf(comps, NewIndices \cap (1..(i - 1))) :
                 p[4] = out /\ p[2]
            /\ Cardinality(OutputWiresOf(d.address)) = 1
            /\ \A j \in OutputWiresOf(d.address) :
                 LET w == file.wires[j]
                     t == comps[IndexOf(w.end_peg.component_address)]
                 IN  /\ <<t.parent, t.type_id = SocketId, t.position>>
                          = TapBefore(col[1], col[2], f)
                     /\ w.end_peg = PegAddress(TRUE, t.address, 0)
                     /\ w.circuit_state_id = out
                     /\ t.inputs[1].circuit_state_id = out
            /\ frame_index = f =>
                 /\ row_col_last_pegs[col[2]][col[1]] = d.address
                 /\ row_col_clusters[col[2]][col[1]] = in

\* the chunk pass of frame 200 has just run on a column whose previous tap
\* is the peg of a change at frame 199, and the pixel changes again
C12_Witness ==
    /\ pc = "frames"
    /\ frame_index = ChunkPeriod
    /\ {199, 200} \subseteq FlipFrames(0, 0)
    /\ ChunkDelayerIndices # {}

\* the generated components of column (x, y) that stand at frame f: the
\* pixel delayer on the pixel lane, the peg or chunk delayer on the tap lane
AtFrame(x, y, f) ==
    {i \in NewIndices :
        LET c == file.components[i]
        IN  /\ c.parent = row_boards[y]
            /\ \/ c.position = <<90 * x + 45, 15, 120 * f - 15>>
               \/ c.position = <<90 * x + 75, 15, 120 * f - 45>>}

\* the wires that end at the component with address a
WiresInto(a) ==
    {j \in NewWireIndices : file.wires[j].end_peg.component_address = a}

\* the wires that start at the component with address a
WiresFrom(a) ==
    {j \in NewWireIndices : file.wires[j].start_peg.component_address = a}

(* C13: a pixel change of a column on a chunk-boundary frame adds one
   component, the pixel delayer, and two wires, the timing tap and the wire
   from the pixel delayer's output to the tap; the tap is the chunk delayer
   made for that column in that frame, no connector and no wire from the tap
   back to the previous tap is made, and lastConnector[y][x] stays the chunk
   delayer. A change on any other frame adds two components and three
   wires. *)
C13_BoundaryChangeReusesChunkDelayer ==
    pc \in Generating \cup AfterInject =>
      LET comps == file.components
      IN  /\ \A t \in FlipSet :
               LET f == t[1]
                   here == AtFrame(t[2], t[3], f)
                   pd == CHOOSE i \in here : i \in PixelDelayerIndices
                   tap == CHOOSE i \in here : i \notin PixelDelayerIndices
                   taps == WiresInto(comps[pd].address)
                   out == OutputWiresOf(comps[pd].address)
               IN  /\ Cardinality(here) = 2
                   /\ Cardinality(here \cap PixelDelayerIndices) = 1
                   /\ Cardinality(taps) = 1
                   /\ Cardinality(out) = 1
                   /\ \A j \in out :
                        file.wires[j].end_peg = PegAddress(TRUE, comps[tap].address, 0)
                   /\ \A j \in taps :
                        /\ file.wires[j].end_peg = PegAddress(TRUE, comps[pd].address, 0)
                        /\ file.wires[j].start_peg.is_input
                   /\ IF f % 200 = 0
                      THEN /\ tap \in ChunkDelayerIndices
                           /\ tap < pd
                           /\ here \cap PegIndices = {}
                           /\ WiresFrom(comps[tap].address)
                                = OutputWiresOf(comps[tap].address)
                           /\ Cardinality(WiresFrom(comps[tap].address)) = 1
                           /\ frame_index = f =>
                                row_col_last_pegs[t[3]][t[2]] = comps[tap].address
                      ELSE /\ tap \in PegIndices
                           /\ tap = pd + 1
                           /\ Cardinality(BackWires(comps[tap])) = 1
                           /\ frame_index = f =>
                                row_col_last_pegs[t[3]][t[2]] = comps[tap].address
          /\ {<<comps[i].parent, comps[i].position>> : i \in PegIndices}
               = {<<row_boards[t[3]], <<90 * t[2] + 75, 15, 120 * t[1] - 45>>>> :
                     t \in {u \in FlipSet : u[1] % 200 # 0}}
          /\ Cardinality(PegIndices)
               = Cardinality({t \in FlipSet : t[1] % 200 # 0})
          /\ Len(comps) - NumOld
               = height * (2 * frame_count + 2) + width * height
                 + width * height * Cardinality(ChunkFrames)
                 + Cardinality({t \in FlipSet : t[1] % 200 = 0})
                 + 2 * Cardinality({t \in FlipSet : t[1] % 200 # 0})
          /\ Len(file.wires) - NumOldWires
               = height * 2 * frame_count
                 + width * height * Cardinality(ChunkFrames)
                 + 2 * Cardinality({t \in FlipSet : t[1] % 200 = 0})
                 + 3 * Cardinality({t \in FlipSet : t[1] % 200 # 0})

\* a pixel that changes on the chunk boundary of frame 200 and again on the
\* ordinary frame after it
C13_Witness ==
    /\ pc = "injected"
    /\ {200, 201} \subseteq FlipFrames(0, 0)
    /\ Cardinality(ChunkDelayerIndices) = 1

\* the frame a pixel delayer was created at, from its position
FrameOf(p) == (p.position[3] + 15) \div 120

(* C14 as stated: for every pixel delayer created at frame f in row y, the
   timing-tap wire starts at the input pin of row y's timing-chain element
   at position z = 2f and ends at the pixel delayer's input pin, also when
   several pixels of the row change in the same frame. *)
C14_TapFromChain ==
    pc \in Generating \cup AfterInject =>
      \A i \in PixelDelayerIndices :
        LET p == file.components[i]
            col == ColumnOf(p)
        IN  /\ Cardinality(WiresInto(p.address)) = 1
            /\ \A j \in WiresInto(p.address) :
                 /\ file.wires[j].start_peg
                      = PegAddress(TRUE, row_frame_delayers[col[2]][2 * FrameOf(p)], 0)
                 /\ file.wires[j].end_peg = PegAddress(TRUE, p.address, 0)

(* C14 amended: for every pixel delayer created at frame f in row y, the
   timing-tap wire ends at the pixel delayer's input pin and carries the
   cluster at position z = 2f of row y's timing chain; it starts at the
   input pin of the chain element at position z for the first changed pixel
   of the row in that frame (the lowest x), and at the input pin of the
   pixel delayer of the previous changed pixel of that row in that frame
   for every other one. *)
C14_TapDaisyChain ==
    pc \in Generating \cup AfterInject =>
      \A i \in PixelDelayerIndices :
        LET comps == file.components
            p == comps[i]
            col == ColumnOf(p)
            f == FrameOf(p)
            before_x == {x \in 0..(col[1] - 1) : <<f, x, col[2]>> \in FlipSet}
            from == IF before_x = {}
                    THEN row_frame_delayers[col[2]][2 * f]
                    ELSE LET x == CHOOSE u \in before_x : \A v \in before_x : v <= u
                         IN  comps[CHOOSE k \in PixelDelayerIndices :
                                     /\ comps[k].parent = p.parent
                                     /\ comps[k].position
                                          = <<90 * x + 45, 15, 120 * f - 15>>].address
        IN  /\ Cardinality(WiresInto(p.address)) = 1
            /\ \A j \in WiresInto(p.address) :
                 /\ file.wires[j].start_peg = PegAddress(TRUE, from, 0)
                 /\ file.wires[j].end_peg = PegAddress(TRUE, p.address, 0)
                 /\ file.wires[j].circuit_state_id = row_frame_clusters[col[2]][2 * f]
                 /\ InputClusterOf(from) = row_frame_clusters[col[2]][2 * f]
            /\ p.inputs[1].circuit_state_id = row_frame_clusters[col[2]][2 * f]

\* in one frame the first and the third pixel of a row change and the
\* second does not, while another row changes its second pixel only
C14_Witness ==
    /\ pc = "injected"
    /\ width = 3 /\ height = 2 /\ frame_count = 1
    /\ FlipSet = {<<1, 0, 1>>, <<1, 2, 1>>, <<1, 1, 0>>}

\* the changes of value of the image pixels in the frames processed so far,
\* as <<f, x, y>> with (x, y) the pixel's place in the image
ImageFlips ==
    {t \in (1..frame_index) \X (0..(width - 1)) \X (0..(height - 1)) :
        PixelOn(t[1], t[2], t[3]) # PixelOn(t[1] - 1, t[2], t[3])}

\* the pixel delayers as <<board row, x, f, input cluster>>
PixelDelayerPlaces ==
    {<<ColumnOf(file.components[i])[2], ColumnOf(file.components[i])[1],
       FrameOf(file.components[i]),
       file.components[i].inputs[1].circuit_state_id>> : i \in PixelDelayerIndices}

(* C15 as stated: a change of image pixel (x, y) at frame f creates a pixel
   delayer whose parent is rowBoards[y] and whose input is bound to the
   cluster at position 2f of row y's timing chain, and no component of
   image row y is parented to another row's board. *)
C15_ParentIsImageRow ==
    pc \in Generating \cup AfterInject =>
      PixelDelayerPlaces
        = {<<t[3], t[2], t[1], row_frame_clusters[t[3]][2 * t[1]]>> : t \in ImageFlips}

(* C15 amended: board row y shows image row height-1-y. A change of image
   pixel (x, y) at frame f creates a pixel delayer whose parent is
   rowBoards[height-1-y], the board at offset 0.90 * (height-1-y), and whose
   input is bound to the cluster at position 2f of that board row's timing
   chain; the pixel delayers and pegs made for image row y are parented to
   that board and to no other. *)
C15_ParentIsMirroredRow ==
    pc \in Generating \cup AfterInject =>
      LET comps == file.components
          mirror == [y \in 0..(height - 1) |-> height - 1 - y]
      IN  /\ PixelDelayerPlaces
               = {<<mirror[t[3]], t[2], t[1], row_frame_clusters[mirror[t[3]]][2 * t[1]]>> :
                     t \in ImageFlips}
          /\ {<<comps[i].parent, comps[i].position>> : i \in PegIndices}
               = {<<row_boards[mirror[t[3]]], <<90 * t[2] + 75, 15, 120 * t[1] - 45>>>> :
                     t \in {u \in ImageFlips : u[1] % 200 # 0}}
          /\ \A y \in 0..(height - 1) :
               /\ comps[IndexOf(row_boards[y])].position = <<0, 90 * y, 0>>
               /\ comps[IndexOf(row_boards[y])].parent = 0
          /\ \A i \in PixelDelayerIndices :
               LET y == ColumnOf(comps[i])[2]
                   element == comps[IndexOf(row_frame_delayers[y][2 * FrameOf(comps[i])])]
               IN  /\ element.parent = comps[i].parent
                   /\ element.inputs = comps[i].inputs
                   /\ element.position = <<15, 15, 120 * FrameOf(comps[i]) + 15>>

\* two image rows, and only the pixel of image row 0 changes
C15_Witness ==
    /\ pc = "injected"
    /\ height = 2 /\ width = 1 /\ frame_count = 2
    /\ ImageFlips = {<<1, 0, 0>>, <<2, 0, 0>>}

(* C16: when the signal-state table is the bitmap form, generation only
   grows it with zero bytes: after inject the bitmap is at least as long as
   the one read from the file and every byte of that one keeps its value. *)
C16_BitmapOnlyGrows ==
    (pc \in AfterInject /\ before.circuit_states.format = "WorldFormat") =>
      LET old == before.circuit_states.circuit_states
          new == file.circuit_states.circuit_states
      IN  /\ Len(new) >= Len(old)
          /\ SubSeq(new, 1, Len(old)) = old

\* the generated components that stand in the columns: sockets, pegs, chunk
\* delayers and pixel delayers
LaneIndices ==
    {i \in NewIndices : file.components[i].position[1] % 90 \in {45, 75}}

\* the frame a column component was created in; the sockets count as frame 0
CreatedAt(c) ==
    IF c.type_id = SocketId THEN 0
    ELSE IF c.position[1] % 90 = 45 THEN (c.position[3] + 15) \div 120
    ELSE (c.position[3] + 45) \div 120

\* the column signal clusters: those on the pins of the column components,
\* the timing-side inputs of the pixel delayers aside
ColumnClusters ==
    LET comps == file.components
    IN  {comps[i].inputs[1].circuit_state_id : i \in LaneIndices \ PixelDelayerIndices}
        \cup {comps[i].outputs[1].circuit_state_id :
                i \in {j \in LaneIndices : Len(comps[j].outputs) > 0}}

\* the pins bound to cluster c among the components comps[i], i in idx, as
\* <<i, side, index>>
PinsOn(comps, idx, c) ==
    UNION {{<<i, TRUE, k>> : k \in {n \in 1..Len(comps[i].inputs) :
                                      comps[i].inputs[n].circuit_state_id = c}}
           \cup {<<i, FALSE, k>> : k \in {n \in 1..Len(comps[i].outputs) :
                                      comps[i].outputs[n].circuit_state_id = c}} :
           i \in idx}

(* C17: every column signal cluster is bound only to pins of components
   created in the frames of one window [200k, 200(k+1)], the socket counting
   as frame 0: at most two pins per frame of the window and one in its last
   frame, hence never more than 2*200 + 1 pins on one cluster, however many
   frames and changes there are. *)
C17_FanOutBounded ==
    pc \in Generating \cup AfterInject =>
      LET comps == file.components
      IN  \A c \in ColumnClusters :
            LET on == PinsOn(comps, NewIndices, c)
                frames == {CreatedAt(comps[p[1]]) : p \in on}
                first == CHOOSE f \in frames : \A g \in frames : f <= g
                k == first \div ChunkPeriod
            IN  /\ \A p \in on : p[1] \in LaneIndices
                /\ PinsOn(before.components, 1..NumOld, c) = {}
                /\ \A g \in frames :
                     /\ ChunkPeriod * k <= g /\ g <= ChunkPeriod * (k + 1)
                     /\ Cardinality({p \in on : CreatedAt(comps[p[1]]) = g})
                          <= IF g = ChunkPeriod * (k + 1) THEN 1 ELSE 2
                /\ Cardinality(on) <= 2 * ChunkPeriod + 1

\* a pixel that changes just before, on and just after the chunk boundary:
\* its column has two clusters of four pins each
C17_Witness ==
    /\ pc = "injected"
    /\ FlipFrames(0, 0) = {199, 200, 201}
    /\ Cardinality(ColumnClusters) = 2
    /\ \A c \in ColumnClusters :
         Cardinality(PinsOn(file.components, NewIndices, c)) = 4

(* C18: when a run has ended, with or without a failure, also a failure in
   opening, writing or flushing the output after generation succeeded, the
   target file holds what it held before the run or the complete generated
   netlist, never a truncated or partly written file. *)
C18_NoPartialFile ==
    pc \in {"done", "failed", "write_failed"} => (disk = before \/ disk = file)

\* the generated timing delayers
TimingIndices ==
    {i \in NewIndices : /\ file.components[i].type_id = DelayerId
                        /\ file.components[i].position[1] = 15}

\* the 0-based chain position of a timing delayer, from its position
ChainPosition(c) == (c.position[3] - 15) \div 60

(* C19: for every frame count F >= 1 and every frame f of 1..F the position
   z = 2f lies within the row's timing-chain delayers (indices 0..2F) and
   clusters (indices 0..2F+1); the last frame taps the last chain element,
   and no tap is taken at position 0 or at an odd position. *)
C19_ChainIndexInRange ==
    pc \in Generating \cup AfterInject =>
      LET comps == file.components
          last == 2 * frame_count
      IN  /\ \A y \in 0..(height - 1) :
               /\ DOMAIN row_frame_delayers[y] = 0..last
               /\ DOMAIN row_frame_clusters[y] = 0..(last + 1)
               /\ \A f \in 1..frame_count :
                    /\ 2 * f \in DOMAIN row_frame_delayers[y]
                    /\ 2 * f \in DOMAIN row_frame_clusters[y]
               /\ (pc = "frames" /\ frame_index < frame_count) =>
                    (frame_index + 1) * 2 \in DOMAIN row_frame_delayers[y]
               /\ OutputWiresOf(row_frame_delayers[y][last]) = {}
          /\ \A i \in PixelDelayerIndices :
               \E e \in TimingIndices :
                 /\ comps[e].inputs = comps[i].inputs
                 /\ comps[e].parent = comps[i].parent
                 /\ ChainPosition(comps[e]) = 2 * FrameOf(comps[i])
                 /\ comps[e].address
                      = row_frame_delayers[ColumnOf(comps[i])[2]][2 * FrameOf(comps[i])]
          /\ LET tapped == {file.wires[j].start_peg.component_address :
                              j \in {n \in NewWireIndices : file.wires[n].start_peg.is_input}}
             IN  \A e \in TimingIndices :
                   comps[e].address \in tapped =>
                     /\ ChainPosition(comps[e]) % 2 = 0
                     /\ ChainPosition(comps[e]) >= 2
                     /\ ChainPosition(comps[e]) <= last

\* the last of more than 200 frames changes a pixel and taps the last element
C19_Witness ==
    /\ pc = "injected"
    /\ frame_count = ChunkPeriod + 1
    /\ {1, frame_count} \subseteq FlipFrames(0, 0)
    /\ \E j \in NewWireIndices :
         file.wires[j].start_peg
           = PegAddress(TRUE, row_frame_delayers[0][2 * frame_count], 0)

====
